---- MODULE Spec2Model ----
(***************************************************************************)
(* Model of the Uscreen + Salesforce sync: the reconciliation engine       *)
(* DataComparer (src/src/data-comparer.js) with the JavaScript primitives  *)
(* its decisions rest on (truthiness, String(), toLowerCase, parseFloat,   *)
(* new Date, Array.prototype.sort), and the steps around it.               *)
(*                                                                         *)
(* JavaScript strings are sequences of one-character strings, so that      *)
(* lowercasing, substring search and parsing are computed, not assumed.    *)
(***************************************************************************)
EXTENDS Integers, Sequences, FiniteSets

(***************************************************************************)
(* JavaScript values.  Every scalar is a record of one shape:              *)
(*   t = "undef" | "null" | "str" | "num",  s = the text,  n = the number. *)
(***************************************************************************)
Undef == [t |-> "undef", s |-> << >>, n |-> 0]

Null == [t |-> "null", s |-> << >>, n |-> 0]

Str(chars) == [t |-> "str", s |-> chars, n |-> 0]

Num(k) == [t |-> "num", s |-> << >>, n |-> k]

\* ToBoolean: undefined, null, "" and 0 are falsy.
Truthy(v) ==
    CASE v.t = "str" -> v.s # << >>
      [] v.t = "num" -> v.n # 0
      [] OTHER -> FALSE

\* a || b
Or(a, b) == IF Truthy(a) THEN a ELSE b

Digits == <<"0", "1", "2", "3", "4", "5", "6", "7", "8", "9">>

IsDigit(c) == \E i \in 1..10 : Digits[i] = c

DigitVal(c) == (CHOOSE i \in 1..10 : Digits[i] = c) - 1

RECURSIVE NatToStr(_)
NatToStr(k) ==
    IF k < 10 THEN <<Digits[k + 1]>>
    ELSE NatToStr(k \div 10) \o <<Digits[(k % 10) + 1]>>

\* String(v)
String(v) ==
    CASE v.t = "str" -> v.s
      [] v.t = "num" -> IF v.n < 0 THEN <<"-">> \o NatToStr(0 - v.n) ELSE NatToStr(v.n)
      [] v.t = "null" -> <<"n", "u", "l", "l">>
      [] OTHER -> <<"u", "n", "d", "e", "f", "i", "n", "e", "d">>

UpperChars == <<"A", "B", "C", "D", "E", "F", "G", "H", "I", "J", "K", "L", "M",
                "N", "O", "P", "Q", "R", "S", "T", "U", "V", "W", "X", "Y", "Z">>

LowerChars == <<"a", "b", "c", "d", "e", "f", "g", "h", "i", "j", "k", "l", "m",
                "n", "o", "p", "q", "r", "s", "t", "u", "v", "w", "x", "y", "z">>

LowerChar(c) ==
    IF \E i \in 1..26 : UpperChars[i] = c
    THEN LowerChars[CHOOSE i \in 1..26 : UpperChars[i] = c]
    ELSE c

\* String.prototype.toLowerCase, on the text of a string
toLowerCase(s) == [i \in 1..Len(s) |-> LowerChar(s[i])]

\* String.prototype.includes
includes(s, sub) ==
    \E k \in 0..(Len(s) - Len(sub)) : SubSeq(s, k + 1, k + Len(sub)) = sub

(***************************************************************************)
(* parseFloat.  The result is NaN or a number; numbers are kept in         *)
(* hundredths (two decimal places), which is exact for the monetary texts  *)
(* of the exports.  Leading blanks are skipped, a sign is optional, the    *)
(* longest numeric prefix is read and the rest is ignored; no digit at     *)
(* all gives NaN.                                                          *)
(***************************************************************************)
NaN == [nan |-> TRUE, c |-> 0]

Amount(c) == [nan |-> FALSE, c |-> c]

RECURSIVE SkipBlanks(_)
SkipBlanks(s) ==
    IF s # << >> /\ Head(s) = " " THEN SkipBlanks(Tail(s)) ELSE s

RECURSIVE DigitRun(_)
\* length of the longest prefix of s made of digits
DigitRun(s) ==
    IF s # << >> /\ IsDigit(Head(s)) THEN 1 + DigitRun(Tail(s)) ELSE 0

RECURSIVE DigitsValue(_)
DigitsValue(s) ==
    IF s = << >> THEN 0
    ELSE 10 * DigitsValue(SubSeq(s, 1, Len(s) - 1)) + DigitVal(s[Len(s)])

Drop(s, k) == SubSeq(s, k + 1, Len(s))

\* the first two decimals of a run of fraction digits, in hundredths
Hundredths(frac) ==
    IF Len(frac) = 0 THEN 0
    ELSE IF Len(frac) = 1 THEN 10 * DigitVal(frac[1])
    ELSE 10 * DigitVal(frac[1]) + DigitVal(frac[2])

\* the fraction digits that follow the integer digits: the text after a "."
FractionPart(rest) ==
    IF rest # << >> /\ Head(rest) = "." THEN Tail(rest) ELSE << >>

\* int and frac are the digit runs before and after the point
NumberOf(int, frac) ==
    IF Len(int) + Len(frac) = 0 THEN NaN
    ELSE Amount(100 * DigitsValue(int) + Hundredths(frac))

DigitPrefix(s) == SubSeq(s, 1, DigitRun(s))

\* the unsigned numeric prefix of s, whose integer digits are int
parseAfterInt(s, int) ==
    NumberOf(int, DigitPrefix(FractionPart(Drop(s, Len(int)))))

parseUnsigned(s) == parseAfterInt(s, DigitPrefix(s))

Negate(x) == IF x.nan THEN x ELSE Amount(0 - x.c)

parseSigned(s) ==
    IF s # << >> /\ Head(s) = "-" THEN Negate(parseUnsigned(Tail(s)))
    ELSE IF s # << >> /\ Head(s) = "+" THEN parseUnsigned(Tail(s))
    ELSE parseUnsigned(s)

parseFloatText(text) == parseSigned(SkipBlanks(text))

\* parseFloat(v): the argument is first converted with String()
parseFloat(v) == parseFloatText(String(v))

\* x <= 0 and x > 0 on parseFloat results: every comparison with NaN is false
LeqZero(x) == ~x.nan /\ x.c <= 0

\* (mutation of GtZero: x >= 0)
GeqZero(x) == ~x.nan /\ x.c >= 0

GtZero(x) == ~x.nan /\ x.c > 0

(***************************************************************************)
(* new Date(v).  The time value is kept in days since 1970-01-01 (the      *)
(* millisecond value divided by 86400000), exact for the date-only strings *)
(* "YYYY-MM-DD", which parse as midnight UTC.  new Date(0) is the epoch;   *)
(* any other text is an Invalid Date, whose time value is NaN.             *)
(***************************************************************************)
InvalidDate == [nan |-> TRUE, t |-> 0]

DateAt(t) == [nan |-> FALSE, t |-> t]

IsLeap(y) == (y % 4 = 0 /\ y % 100 # 0) \/ y % 400 = 0

DaysInMonth(y, m) ==
    IF m = 2 THEN (IF IsLeap(y) THEN 29 ELSE 28)
    ELSE IF m \in {4, 6, 9, 11} THEN 30 ELSE 31

\* days from 1970-01-01 to the civil date y-m-d (proleptic Gregorian)
DaysFromCivil(y, m, d) ==
    LET yy == IF m <= 2 THEN y - 1 ELSE y
        era == yy \div 400
        yoe == yy - era * 400
        mp == IF m > 2 THEN m - 3 ELSE m + 9
        doy == ((153 * mp + 2) \div 5) + d - 1
        doe == yoe * 365 + (yoe \div 4) - (yoe \div 100) + doy
    IN  era * 146097 + doe - 719468

IsIsoDate(s) ==
    /\ Len(s) = 10
    /\ s[5] = "-" /\ s[8] = "-"
    /\ \A i \in {1, 2, 3, 4, 6, 7, 9, 10} : IsDigit(s[i])

CivilDate(y, m, d) ==
    IF m \in 1..12 /\ d \in 1..DaysInMonth(y, m)
    THEN DateAt(DaysFromCivil(y, m, d))
    ELSE InvalidDate

DateParse(s) ==
    IF ~IsIsoDate(s) THEN InvalidDate
    ELSE CivilDate(DigitsValue(SubSeq(s, 1, 4)), DigitsValue(SubSeq(s, 6, 7)),
                   DigitsValue(SubSeq(s, 9, 10)))

\* new Date(v) for a string or a number of milliseconds
NewDate(v) ==
    CASE v.t = "num" -> DateAt(v.n \div 86400000)
      [] v.t = "str" -> DateParse(v.s)
      [] OTHER -> InvalidDate

\* (mutation of DateGt: a >= b)
DateGeq(a, b) == ~a.nan /\ ~b.nan /\ a.t >= b.t

\* a > b on Date objects (compared by time value; false when either is NaN)
DateGt(a, b) == ~a.nan /\ ~b.nan /\ a.t > b.t

(***************************************************************************)
(* Optional values (a lookup that may miss, a result that may be null)     *)
(* are sequences of length at most one: << >> is undefined / null.         *)
(***************************************************************************)
None == << >>

Some(x) == <<x>>

\* (mutation of MapSet: a key that is present keeps its value)
MapSetIfAbsent(m, key, val) ==
    [k \in (DOMAIN m) \cup {key} |-> IF k \in DOMAIN m THEN m[k] ELSE val]

\* Map.prototype.set and Map.prototype.get; a Map is a function on its keys
MapSet(m, key, val) ==
    [k \in (DOMAIN m) \cup {key} |-> IF k = key THEN val ELSE m[k]]

MapGet(m, key) == IF key \in DOMAIN m THEN Some(m[key]) ELSE None

EmptyMap == [k \in {} |-> Null]

(***************************************************************************)
(* Array.prototype.sort with a comparison function, as the runtime of the  *)
(* script (Node.js, V8) performs it on arrays shorter than 64 elements:    *)
(* TimSort's CountAndMakeRun followed by BinaryInsertionSort, where a      *)
(* comparison result of NaN counts as 0.  Positions are 0-based as in the  *)
(* engine; arr[k + 1] is element k.                                        *)
(***************************************************************************)
\* the comparison function of findLatestPayment: dateB - dateA
chargeDateOf(p) == NewDate(Or(Or(p.ChargeDate, p.charge_date), Num(0)))

\* x - y on Date objects: the difference of the time values, or NaN
DateMinus(x, y) ==
    IF x.nan \/ y.nan THEN [nan |-> TRUE, v |-> 0]
    ELSE [nan |-> FALSE, v |-> x.t - y.t]

comparefn(a, b) == DateMinus(chargeDateOf(b), chargeDateOf(a))

NaNAsZero(order) == IF order.nan THEN 0 ELSE order.v

\* the engine's wrapper of the comparison function: NaN is taken as 0
SortCompare(a, b) == NaNAsZero(comparefn(a, b))

Reverse(s) == [i \in 1..Len(s) |-> s[Len(s) + 1 - i]]

RECURSIVE RunLength(_, _, _)
\* idx is the 0-based position of the next element examined
\* whether the run ends before the element whose comparison gave order
RunBreaks(isDescending, order) ==
    (isDescending /\ order >= 0) \/ (~isDescending /\ order < 0)

RunLength(arr, isDescending, idx) ==
    IF idx >= Len(arr) THEN idx
    ELSE IF RunBreaks(isDescending, SortCompare(arr[idx + 1], arr[idx]))
         THEN idx
         ELSE RunLength(arr, isDescending, idx + 1)

RECURSIVE BinarySearch(_, _, _, _)
BinarySearch(arr, pivot, left, right) ==
    IF left >= right THEN left
    ELSE IF SortCompare(pivot, arr[left + ((right - left) \div 2) + 1]) < 0
         THEN BinarySearch(arr, pivot, left, left + ((right - left) \div 2))
         ELSE BinarySearch(arr, pivot, left + ((right - left) \div 2) + 1, right)

RECURSIVE BinaryInsertionSort(_, _)
\* elements 0 .. start-1 are in order; insert the others one by one
\* element start moved down to position left, the ones between moved up
MoveTo(arr, start, left) ==
    SubSeq(arr, 1, left) \o <<arr[start + 1]>>
        \o SubSeq(arr, left + 1, start) \o SubSeq(arr, start + 2, Len(arr))

BinaryInsertionSort(arr, start) ==
    IF start >= Len(arr) THEN arr
    ELSE BinaryInsertionSort(
             MoveTo(arr, start, BinarySearch(arr, arr[start + 1], 0, start)),
             start + 1)

\* CountAndMakeRun's effect on the array: a descending run is reversed
MakeRun(arr, isDescending, runLength) ==
    IF isDescending
    THEN Reverse(SubSeq(arr, 1, runLength)) \o SubSeq(arr, runLength + 1, Len(arr))
    ELSE arr

SortFromRun(arr, isDescending, runLength) ==
    BinaryInsertionSort(MakeRun(arr, isDescending, runLength), runLength)

SortWithRun(arr, isDescending) ==
    SortFromRun(arr, isDescending, RunLength(arr, isDescending, 2))

ArraySort(arr) ==
    IF Len(arr) < 2 THEN arr
    ELSE SortWithRun(arr, SortCompare(arr[2], arr[1]) < 0)

(***************************************************************************)
(* DataComparer.findLatestPayment(payments, email, uscreenId)              *)
(* email is the member's lowercased email text, uscreenId a value.         *)
(***************************************************************************)
paymentAmount(p) ==
    parseFloat(Or(Or(Or(p.ChargeAmount, p.charge_amount), p.amount), Num(0)))

\* the predicate of payments.filter
paymentEmail(p) == toLowerCase(Or(Or(p.email, p.Email), Str(<< >>)).s)

paymentUserId(p) == Or(Or(p.UserID, p.user_id), Str(<< >>))

paymentFilter(p, email, uscreenId) ==
    IF LeqZero(paymentAmount(p)) THEN FALSE
    ELSE paymentEmail(p) = email \/ String(paymentUserId(p)) = String(uscreenId)

userPaymentsOf(payments, email, uscreenId) ==
    SelectSeq(payments, LAMBDA p : paymentFilter(p, email, uscreenId))

\* the object findLatestPayment returns for the payment latest
latestPaymentOf(latest) ==
    [email |-> Or(latest.email, latest.Email),
     amount |-> paymentAmount(latest),
     chargeDate |-> Or(latest.ChargeDate, latest.charge_date),
     subscription |-> Or(latest.Subscription, latest.subscription),
     paymentId |-> Or(latest.PaymentID, latest.payment_id)]

\* the part of findLatestPayment after the filter
latestOf(userPayments) ==
    IF Len(userPayments) = 0 THEN None
    ELSE Some(latestPaymentOf(ArraySort(userPayments)[1]))

findLatestPayment(payments, email, uscreenId) ==
    latestOf(userPaymentsOf(payments, email, uscreenId))

\* (mutation of arraysAfterSort: the sort acts on the array that was passed in)
arraysAfterSortOfArgument(payments, userPayments) ==
    [payments |-> IF Len(payments) = 0 THEN payments ELSE ArraySort(payments),
     userPayments |-> userPayments]

\* the two arrays of findLatestPayment after userPayments.sort: payments is the
\* caller's array, userPayments the new array that filter returned
arraysAfterSort(payments, userPayments) ==
    [payments |-> payments,
     userPayments |-> IF Len(userPayments) = 0 THEN userPayments
                      ELSE ArraySort(userPayments)]

\* the caller's array as a call of findLatestPayment leaves it
paymentsAfterFind(payments, email, uscreenId) ==
    arraysAfterSort(payments, userPaymentsOf(payments, email, uscreenId)).payments

(***************************************************************************)
(* Records.  A row of the Uscreen exports is an object keyed by the CSV    *)
(* header; a column the export does not have reads as undefined.  ref is   *)
(* the identity of the row object (its rank in the parsed file).  A        *)
(* Salesforce record is the flat object built by getProgramRoles; sfId is  *)
(* the record's Salesforce Id.                                             *)
(***************************************************************************)
\* (mutation of orEmpty: the value is used without the '' default)
orEmptyDropped(v) == v

\* (v || '')
orEmpty(v) == Or(v, Str(<< >>))

Text(v) == Or(v, Str(<< >>)).s

\* v.toLowerCase() raises a TypeError unless v is a string
lowerCaseThrows(v) == v.t # "str"

userId(user) == Or(Or(user.UserID, user.user_id), user.id)

userEmail(user) == toLowerCase(Text(Or(user.email, user.UserEmail)))

userStatus(user) == toLowerCase(Text(Or(user.Status, user.status)))

userLifetime(user) == parseFloat(Or(Or(user.Lifetime, user.lifetime), Num(0)))

ChurnedText == <<"c", "h", "u", "r", "n", "e", "d">>

CancelledText == <<"c", "a", "n", "c", "e", "l", "l", "e", "d">>

\* (mutation of isCancelled: a status that contains "churned" counts)
isCancelledLoose(user) ==
    \/ userStatus(user) = CancelledText
    \/ includes(userStatus(user), ChurnedText)
    \/ includes(toLowerCase(Text(user.Segment)), ChurnedText)

\* the condition of the "Check if cancelled" branch
isCancelled(user) ==
    \/ userStatus(user) = CancelledText
    \/ userStatus(user) = ChurnedText
    \/ includes(toLowerCase(Text(user.Segment)), ChurnedText)

(***************************************************************************)
(* DataComparer.compare                                                    *)
(***************************************************************************)
\* one iteration of the "Build SF lookup maps" loop, on each map
indexById(m, sf) ==
    IF Truthy(sf.uscreenMemberId)
    THEN MapSet(m, String(sf.uscreenMemberId), sf)
    ELSE m

\* (mutation of indexByEmail: the key keeps its letter case)
indexByEmailExact(m, sf) ==
    IF Truthy(sf.contactEmail) THEN MapSet(m, sf.contactEmail.s, sf) ELSE m

indexByEmail(m, sf) ==
    IF Truthy(sf.contactEmail)
    THEN MapSet(m, toLowerCase(sf.contactEmail.s), sf)
    ELSE m

RECURSIVE buildById(_, _)
buildById(m, sfs) ==
    IF sfs = << >> THEN m ELSE buildById(indexById(m, Head(sfs)), Tail(sfs))

RECURSIVE buildByEmail(_, _)
buildByEmail(m, sfs) ==
    IF sfs = << >> THEN m ELSE buildByEmail(indexByEmail(m, Head(sfs)), Tail(sfs))

\* (mutation of matchByEmail: the email map is consulted first)
matchByEmailFirst(byIdHit, email, byEmail) ==
    IF email # << >> /\ MapGet(byEmail, email) # None
    THEN MapGet(byEmail, email)
    ELSE byIdHit

\* "Try to match by Uscreen ID first, then by email"; byIdHit is the result
\* of the lookup in the id map
matchByEmail(byIdHit, email, byEmail) ==
    IF byIdHit = None /\ email # << >> THEN MapGet(byEmail, email) ELSE byIdHit

matchUser(user, byId, byEmail) ==
    matchByEmail(MapGet(byId, String(userId(user))), userEmail(user), byEmail)

EmptyResults ==
    [matched |-> << >>, needsUpdate |-> << >>, newUsers |-> << >>,
     cancelled |-> << >>, noMatch |-> << >>]

\* v ? new Date(v) : null
DateOrNull(v) == IF Truthy(v) THEN Some(NewDate(v)) ELSE None

\* uscreenPaymentDate && (!sfLastPaymentDate || uscreenPaymentDate > sfLastPaymentDate)
\* (a Date object is truthy, an Invalid Date too)
isNewer(uscreenPaymentDate, sfLastPaymentDate) ==
    /\ uscreenPaymentDate # None
    /\ \/ sfLastPaymentDate = None
       \/ DateGt(uscreenPaymentDate[1], sfLastPaymentDate[1])

\* the condition of the "new payment data to update" branch
paymentIsNewer(latestPayment, sfRecord) ==
    /\ latestPayment # None
    /\ isNewer(DateOrNull(latestPayment[1].chargeDate),
               DateOrNull(sfRecord.uscreenLastPaymentDate))

matchDataOf(user, sfRecord) ==
    [uscreenUser |-> user, sfRecord |-> sfRecord,
     uscreenId |-> userId(user), email |-> userEmail(user)]

\* (mutation of cancelledEntry: previousStatus is the member's status)
cancelledEntryOwnStatus(user, sfRecord) ==
    [uscreenUser |-> user, sfRecord |-> sfRecord,
     uscreenId |-> userId(user), email |-> userEmail(user),
     previousStatus |-> Str(userStatus(user)),
     newStatus |-> "cancelled"]

cancelledEntry(user, sfRecord) ==
    [uscreenUser |-> user, sfRecord |-> sfRecord,
     uscreenId |-> userId(user), email |-> userEmail(user),
     previousStatus |-> sfRecord.uscreenSubscriptionStatus,
     newStatus |-> "cancelled"]

updateEntry(user, sfRecord, latestPayment) ==
    [uscreenUser |-> user, sfRecord |-> sfRecord,
     uscreenId |-> userId(user), email |-> userEmail(user),
     latestPayment |-> latestPayment,
     sfLastPaymentDate |-> DateOrNull(sfRecord.uscreenLastPaymentDate),
     uscreenLastPaymentDate |-> NewDate(latestPayment.chargeDate)]

\* (mutation of onMatch: a member is reported cancelled only when the record's
\* status is not cancelled already)
onMatchNewlyCancelled(results, user, sfRecord, latestPayment) ==
    [results EXCEPT
       !.matched = Append(@, matchDataOf(user, sfRecord)),
       !.cancelled = IF /\ isCancelled(user)
                        /\ toLowerCase(Text(sfRecord.uscreenSubscriptionStatus))
                              # CancelledText
                     THEN Append(@, cancelledEntry(user, sfRecord)) ELSE @,
       !.needsUpdate = IF paymentIsNewer(latestPayment, sfRecord)
                       THEN Append(@, updateEntry(user, sfRecord, latestPayment[1]))
                       ELSE @]

\* (mutation of onMatch: the payment check runs only for a member that is not
\* cancelled)
onMatchEitherList(results, user, sfRecord, latestPayment) ==
    [results EXCEPT
       !.matched = Append(@, matchDataOf(user, sfRecord)),
       !.cancelled = IF isCancelled(user)
                     THEN Append(@, cancelledEntry(user, sfRecord)) ELSE @,
       !.needsUpdate = IF ~isCancelled(user) /\ paymentIsNewer(latestPayment, sfRecord)
                       THEN Append(@, updateEntry(user, sfRecord, latestPayment[1]))
                       ELSE @]

\* the "Matched!" branch, latestPayment being what findLatestPayment returned
onMatch(results, user, sfRecord, latestPayment) ==
    [results EXCEPT
       !.matched = Append(@, matchDataOf(user, sfRecord)),
       !.cancelled = IF isCancelled(user)
                     THEN Append(@, cancelledEntry(user, sfRecord)) ELSE @,
       !.needsUpdate = IF paymentIsNewer(latestPayment, sfRecord)
                       THEN Append(@, updateEntry(user, sfRecord, latestPayment[1]))
                       ELSE @]

\* (mutation of onNoMatch: a member without lifetime value is dropped)
onNoMatchPaidOnly(results, user) ==
    IF GtZero(userLifetime(user))
    THEN [results EXCEPT !.newUsers =
             Append(@, [uscreenUser |-> user, uscreenId |-> userId(user),
                        email |-> userEmail(user), lifetime |-> userLifetime(user),
                        status |-> userStatus(user)])]
    ELSE results

\* the "No SF match" branch
onNoMatch(results, user) ==
    IF GtZero(userLifetime(user))
    THEN [results EXCEPT !.newUsers =
             Append(@, [uscreenUser |-> user, uscreenId |-> userId(user),
                        email |-> userEmail(user), lifetime |-> userLifetime(user),
                        status |-> userStatus(user)])]
    ELSE [results EXCEPT !.noMatch =
             Append(@, [uscreenUser |-> user, uscreenId |-> userId(user),
                        email |-> userEmail(user),
                        reason |-> "No SF match, $0 lifetime"])]

\* (mutation of placeUser: the cancellation check runs for every member)
placeUserCheckingAll(results, user, hit, uscreenPayments) ==
    IF hit # None
    THEN onMatch(results, user, hit[1],
                 findLatestPayment(uscreenPayments, userEmail(user), userId(user)))
    ELSE IF isCancelled(user)
         THEN [onNoMatch(results, user) EXCEPT !.cancelled =
                  Append(@, [uscreenUser |-> user, uscreenId |-> userId(user),
                             email |-> userEmail(user), previousStatus |-> Undef,
                             newStatus |-> "cancelled"])]
         ELSE onNoMatch(results, user)

\* the branch on sfRecord, hit being the outcome of the two lookups
placeUser(results, user, hit, uscreenPayments) ==
    IF hit # None
    THEN onMatch(results, user, hit[1],
                 findLatestPayment(uscreenPayments, userEmail(user), userId(user)))
    ELSE onNoMatch(results, user)

\* the body of the "Process each Uscreen user" loop
processUser(results, user, uscreenPayments, byId, byEmail) ==
    placeUser(results, user, matchUser(user, byId, byEmail), uscreenPayments)

RECURSIVE processUsers(_, _, _, _, _)
processUsers(results, users, uscreenPayments, byId, byEmail) ==
    IF users = << >> THEN results
    ELSE processUsers(processUser(results, Head(users), uscreenPayments, byId, byEmail),
                      Tail(users), uscreenPayments, byId, byEmail)

\* the payments array after the loop iteration of user, and after the loop:
\* findLatestPayment is called for the matched members
paymentsAfterUser(user, payments, byId, byEmail) ==
    IF matchUser(user, byId, byEmail) # None
    THEN paymentsAfterFind(payments, userEmail(user), userId(user))
    ELSE payments

RECURSIVE paymentsAfterUsers(_, _, _, _)
paymentsAfterUsers(users, payments, byId, byEmail) ==
    IF users = << >> THEN payments
    ELSE paymentsAfterUsers(Tail(users),
                            paymentsAfterUser(Head(users), payments, byId, byEmail),
                            byId, byEmail)

\* (mutation of compareWith: the members are processed last to first)
compareWithLastFirst(data, byId, byEmail) ==
    [results |-> processUsers(EmptyResults, Reverse(data.users), data.payments,
                              byId, byEmail),
     payments |-> paymentsAfterUsers(data.users, data.payments, byId, byEmail),
     sfByUscreenId |-> byId,
     sfByEmail |-> byEmail]

\* compare once the maps hold the records of this call
compareWith(data, byId, byEmail) ==
    [results |-> processUsers(EmptyResults, data.users, data.payments, byId, byEmail),
     payments |-> paymentsAfterUsers(data.users, data.payments, byId, byEmail),
     sfByUscreenId |-> byId,
     sfByEmail |-> byEmail]

\* compare(uscreenData, sfData) on an instance whose maps are byId, byEmail:
\* the returned results, the payments array as the call leaves it and the maps
\* the call leaves on the instance
compare(data, sfs, byId, byEmail) ==
    compareWith(data, buildById(byId, sfs), buildByEmail(byEmail, sfs))

(***************************************************************************)
(* Exceptions.  compare validates nothing; it raises a TypeError where a   *)
(* statement cannot run: for...of on a value that is not iterable (lines   *)
(* 18 and 36), payments.filter on undefined (line 113), toLowerCase on a   *)
(* value that is not a string (lines 23, 38, 39, 61, 114).  absent is the  *)
(* set of the arguments that are undefined instead of arrays.              *)
(***************************************************************************)
\* the iteration of the index loop on sf raises
sfThrows(sf) == Truthy(sf.contactEmail) /\ lowerCaseThrows(sf.contactEmail)

\* the records the index loop has passed to sfByUscreenId.set and to
\* sfByEmail.set when it ends or raises
RECURSIVE idIndexed(_)
idIndexed(sfs) ==
    IF sfs = << >> THEN << >>
    ELSE IF sfThrows(Head(sfs)) THEN <<Head(sfs)>>
    ELSE <<Head(sfs)>> \o idIndexed(Tail(sfs))

RECURSIVE emailIndexed(_)
emailIndexed(sfs) ==
    IF sfs = << >> THEN << >>
    ELSE IF sfThrows(Head(sfs)) THEN << >>
    ELSE <<Head(sfs)>> \o emailIndexed(Tail(sfs))

indexThrows(sfs, absent) ==
    "sfData" \in absent \/ \E i \in 1..Len(sfs) : sfThrows(sfs[i])

\* lines 37-40 raise on the row user
rowThrows(user) ==
    \/ lowerCaseThrows(orEmpty(Or(user.email, user.UserEmail)))
    \/ lowerCaseThrows(orEmpty(Or(user.Status, user.status)))

\* the callback of payments.filter raises on some payment
filterThrows(payments) ==
    \E i \in 1..Len(payments) :
        lowerCaseThrows(orEmpty(Or(payments[i].email, payments[i].Email)))

\* the "Matched!" branch raises for the row user
matchedRowThrows(user, payments, absent) ==
    \/ /\ userStatus(user) \notin {CancelledText, ChurnedText}
       /\ lowerCaseThrows(orEmpty(user.Segment))
    \/ "payments" \in absent
    \/ filterThrows(payments)

\* the loop over the members raises
usersThrow(data, byId, byEmail, absent) ==
    \/ "users" \in absent
    \/ \E i \in 1..Len(data.users) :
          \/ rowThrows(data.users[i])
          \/ /\ matchUser(data.users[i], byId, byEmail) # None
             /\ matchedRowThrows(data.users[i], data.payments, absent)

\* compare(uscreenData, sfData) raises instead of returning
compareThrows(data, sfs, byId, byEmail, absent) ==
    \/ indexThrows(sfs, absent)
    \/ usersThrow(data, buildById(byId, sfs), buildByEmail(byEmail, sfs), absent)

(***************************************************************************)
(* State.  uscreenData and sfData are what main passes to compare;         *)
(* sfByUscreenId and sfByEmail are the fields of the DataComparer          *)
(* instance; comparison is the value compare returned last and previous    *)
(* the value it returned the time before (the report of the earlier run).  *)
(*   phase = "ready"      the comparer is constructed, compare not called  *)
(*           "compared"   compare has returned                             *)
(*           "synced"     the reported payment dates are written back      *)
(*           "recompared" compare has returned on the written-back records *)
(*           "pulled"     the target records were read again                *)
(*           "again"      compare has returned on the records read again    *)
(*           "failed"     compare has raised; main logs and exits with 1    *)
(* absent names the arguments of compare that are undefined: "users" and   *)
(* "payments" for the fields of uscreenData, "sfData"; the list of an      *)
(* absent argument is empty and is not read.                               *)
(***************************************************************************)
VARIABLES uscreenData, sfData, sfByUscreenId, sfByEmail, comparison, previous, phase,
          absent, main, uscreen, salesforce, sheets

vars ==
    <<uscreenData, sfData, sfByUscreenId, sfByEmail, comparison, previous, phase,
      absent, main, uscreen, salesforce, sheets>>

\* the script around the comparer: main of index.js, its UscreenScraper, its
\* SalesforceClient and its GoogleSheetsClient
script == <<main, uscreen, salesforce, sheets>>

\* new DataComparer(): a comparer for the next run of the script
NewComparer ==
    /\ phase \in {"synced", "pulled", "again"}
    /\ sfByUscreenId # EmptyMap \/ sfByEmail # EmptyMap
    /\ sfByUscreenId' = EmptyMap
    /\ sfByEmail' = EmptyMap
    /\ UNCHANGED <<uscreenData, sfData, comparison, previous, phase, absent>>
    /\ UNCHANGED script

\* the effect of a call of compare that returns out
Returns(out) ==
    /\ comparison' = out.results
    /\ uscreenData' = [uscreenData EXCEPT !.payments = out.payments]
    /\ sfByUscreenId' = out.sfByUscreenId
    /\ sfByEmail' = out.sfByEmail

\* the effect of a call of compare that raises: the maps hold what the index
\* loop has set, nothing is returned
Throws ==
    /\ sfByUscreenId' = IF "sfData" \in absent THEN sfByUscreenId
                        ELSE buildById(sfByUscreenId, idIndexed(sfData))
    /\ sfByEmail' = IF "sfData" \in absent THEN sfByEmail
                    ELSE buildByEmail(sfByEmail, emailIndexed(sfData))
    /\ phase' = "failed"
    /\ UNCHANGED <<uscreenData, comparison, previous>>

\* comparer.compare(uscreenData, sfData)
Compare ==
    /\ phase \in {"ready", "synced", "pulled", "again"}
    /\ IF compareThrows(uscreenData, sfData, sfByUscreenId, sfByEmail, absent)
       THEN Throws
       ELSE /\ Returns(compare(uscreenData, sfData, sfByUscreenId, sfByEmail))
            /\ previous' = comparison
            /\ phase' = CASE phase = "ready" -> "compared"
                          [] phase = "synced" -> "recompared"
                          [] OTHER -> "again"
    /\ UNCHANGED <<sfData, absent>>
    /\ UNCHANGED script

\* updateProgramRole(sfId, {Uscreen_Last_Payment_Date__c: chargeDate}) as the
\* next getProgramRoles returns it
updateProgramRole(sfs, sfId, chargeDate) ==
    [i \in 1..Len(sfs) |->
        IF sfs[i].sfId = sfId
        THEN [sfs[i] EXCEPT !.uscreenLastPaymentDate = chargeDate]
        ELSE sfs[i]]

RECURSIVE applyUpdates(_, _)
applyUpdates(sfs, entries) ==
    IF entries = << >> THEN sfs
    ELSE applyUpdates(updateProgramRole(sfs, Head(entries).sfRecord.sfId,
                                        Head(entries).latestPayment.chargeDate),
                      Tail(entries))

\* every entry of the Needs Update list is applied to Salesforce, in order
ApplyUpdates ==
    /\ phase = "compared"
    /\ comparison.needsUpdate # << >>
    /\ sfData' = applyUpdates(sfData, comparison.needsUpdate)
    /\ phase' = "synced"
    /\ UNCHANGED <<uscreenData, sfByUscreenId, sfByEmail, comparison, previous, absent>>
    /\ UNCHANGED script

Next == NewComparer \/ Compare \/ ApplyUpdates

\* the list sfs without its i-th record
Without(sfs, i) ==
    [k \in 1..(Len(sfs) - 1) |-> IF k < i THEN sfs[k] ELSE sfs[k + 1]]

\* getProgramRoles() of a later run, for a caller that keeps its comparer: one
\* of the records is no longer returned by the query (it was deleted, or its
\* Uscreen_Member_ID__c was cleared)
getProgramRoles ==
    /\ phase = "compared"
    /\ \E i \in 1..Len(sfData) : sfData' = Without(sfData, i)
    /\ phase' = "pulled"
    /\ UNCHANGED <<uscreenData, sfByUscreenId, sfByEmail, comparison, previous, absent>>
    /\ UNCHANGED script

\* the steps of a caller that runs compare repeatedly
NextRepeated == Next \/ getProgramRoles

(***************************************************************************)
(* The script (index.js) and its clients.                                  *)
(*                                                                         *)
(* main is the position of main(): pc is "idle" while main is not running, *)
(* "step1" .. "step4" while the step of that number runs or is next,       *)
(* "done" when main returned and "exited" after process.exit; exit is the  *)
(* status process.exit was called with.  In a run of main, uscreenData     *)
(* holds the rows of the two exports until scrapeAll returns them, and     *)
(* sfData the records of Salesforce that the query returns.                *)
(***************************************************************************)
NotStarted == [pc |-> "idle", isDryRun |-> FALSE, exit |-> "none"]

\* (mutation of onError: the error is logged and main goes on with the next step)
onErrorLogged(m) ==
    [m EXCEPT !.pc = CASE @ = "step1" -> "step2"
                       [] @ = "step2" -> "step3"
                       [] @ = "step3" -> "step4"
                       [] OTHER -> "done"]

\* the catch block of main: process.exit(1)
onError(m) == [m EXCEPT !.pc = "exited", !.exit = "1"]

\* (mutation of step4Writes: the results are written in a dry run too)
step4WritesAlways(isDryRun) == TRUE

\* the condition of Step 4: if (!isDryRun)
step4Writes(isDryRun) == ~isDryRun

comparerVars == <<sfByUscreenId, sfByEmail, comparison, previous, phase, absent>>

(***************************************************************************)
(* UscreenScraper.  browser and page are this.browser and this.page, null  *)
(* or an object ("open"); at is the statement of scrapeAll that runs next, *)
(* "catch" for its catch block, "returned" or "threw" when scrapeAll has   *)
(* finished; found is the number of CSV files downloadExports found in the *)
(* download folder.                                                        *)
(***************************************************************************)
NewScraper == [browser |-> "null", page |-> "null", at |-> "mkdirSync", found |-> 0]

\* the statement after a statement of scrapeAll that neither launches nor
\* closes the browser
After(at) ==
    CASE at = "mkdirSync" -> "launchBrowser"
      [] at = "login" -> "triggerPeopleExport"
      [] at = "triggerPeopleExport" -> "triggerSalesExport"
      [] at = "triggerSalesExport" -> "downloadExports"
      [] at = "downloadExports" -> "parseCSV"
      [] OTHER -> "closeBrowser"

\* launchBrowser(): outcome is "launched", or the call that rejected:
\* puppeteer.launch ("launch"), browser.newPage ("newPage"), or one of the
\* calls that set up the page ("setup")
LaunchOutcomes == {"launched", "launch", "newPage", "setup"}

launchBrowser(s, outcome) ==
    [s EXCEPT !.browser = IF outcome = "launch" THEN @ ELSE "open",
              !.page = IF outcome \in {"launch", "newPage"} THEN @ ELSE "open"]

\* closeBrowser(): closed says whether browser.close() resolved; the fields
\* are cleared after the await only
closeBrowserThrows(s, closed) == s.browser # "null" /\ ~closed

closeBrowser(s, closed) ==
    IF s.browser # "null" /\ closed
    THEN [s EXCEPT !.browser = "null", !.page = "null"]
    ELSE s

\* what the two calls of parseCSV return for the rows of the exports: a file
\* that is not in the download folder reads as no rows
parseCSV(data, found) ==
    [users |-> IF found >= 1 THEN data.users ELSE << >>,
     payments |-> IF found >= 2 THEN data.payments ELSE << >>]

\* a statement of scrapeAll that uses the page: it resolves, or it rejects and
\* the catch block is next
scrapeStep ==
    /\ main.pc = "step1"
    /\ uscreen.at \in {"mkdirSync", "login", "triggerPeopleExport", "triggerSalesExport"}
    /\ \E ok \in BOOLEAN :
          uscreen' = [uscreen EXCEPT !.at = IF ok THEN After(@) ELSE "catch"]
    /\ UNCHANGED <<uscreenData, sfData, comparerVars, main, salesforce, sheets>>

LaunchBrowser ==
    /\ main.pc = "step1"
    /\ uscreen.at = "launchBrowser"
    /\ \E outcome \in LaunchOutcomes :
          uscreen' = [launchBrowser(uscreen, outcome) EXCEPT
                         !.at = IF outcome = "launched" THEN "login" ELSE "catch"]
    /\ UNCHANGED <<uscreenData, sfData, comparerVars, main, salesforce, sheets>>

\* downloadExports(): a failed download of a link is logged only, so that the
\* call returns with 0, 1 or 2 files in the folder; the navigation to the page
\* of the exported files can reject
DownloadExports ==
    /\ main.pc = "step1"
    /\ uscreen.at = "downloadExports"
    /\ \E ok \in BOOLEAN, n \in 0..2 :
          uscreen' = [uscreen EXCEPT !.found = IF ok THEN n ELSE @,
                                     !.at = IF ok THEN After(@) ELSE "catch"]
    /\ UNCHANGED <<uscreenData, sfData, comparerVars, main, salesforce, sheets>>

\* the two calls of parseCSV; parse can reject a file that is not CSV
ParseCSV ==
    /\ main.pc = "step1"
    /\ uscreen.at = "parseCSV"
    /\ \E ok \in BOOLEAN :
          /\ uscreen' = [uscreen EXCEPT !.at = IF ok THEN After(@) ELSE "catch"]
          /\ uscreenData' = IF ok THEN parseCSV(uscreenData, uscreen.found)
                            ELSE uscreenData
    /\ UNCHANGED <<sfData, comparerVars, main, salesforce, sheets>>

\* await this.closeBrowser(); return { users, payments }: main goes on with
\* Step 2 when the browser closed, the catch block is next when it did not
CloseBrowser ==
    /\ main.pc = "step1"
    /\ uscreen.at = "closeBrowser"
    /\ \E closed \in BOOLEAN :
          /\ uscreen' = [closeBrowser(uscreen, closed) EXCEPT
                            !.at = IF closeBrowserThrows(uscreen, closed)
                                   THEN "catch" ELSE "returned"]
          /\ main' = IF closeBrowserThrows(uscreen, closed) THEN main
                     ELSE [main EXCEPT !.pc = "step2"]
    /\ UNCHANGED <<uscreenData, sfData, comparerVars, salesforce, sheets>>

\* catch (error) { await this.closeBrowser(); throw error; } and the catch
\* block of main, which the error reaches
ScrapeCatch ==
    /\ main.pc = "step1"
    /\ uscreen.at = "catch"
    /\ \E closed \in BOOLEAN :
          uscreen' = [closeBrowser(uscreen, closed) EXCEPT !.at = "threw"]
    /\ main' = onError(main)
    /\ UNCHANGED <<uscreenData, sfData, comparerVars, salesforce, sheets>>

(***************************************************************************)
(* SalesforceClient.  conn is this.conn: 0 for null, else the number of    *)
(* the jsforce.Connection it holds (connect makes a new one each time).    *)
(* calls lists what the client sent to Salesforce: op is "login", "query"  *)
(* or "update", conn the connection it went over, ok whether Salesforce    *)
(* answered it with success.                                               *)
(***************************************************************************)
MaxCalls == 4

NewClient == [conn |-> 0, calls |-> << >>]

\* the connection of the client has logged in
LoggedIn(c) ==
    \E i \in 1..Len(c.calls) :
        c.calls[i] = [op |-> "login", conn |-> c.conn, ok |-> TRUE]

Logins(c) == {i \in 1..Len(c.calls) : c.calls[i].op = "login"}

\* connect(): this.conn is assigned before the login is awaited
connect(c, loginOk) ==
    [conn |-> Cardinality(Logins(c)) + 1,
     calls |-> Append(c.calls, [op |-> "login", conn |-> Cardinality(Logins(c)) + 1,
                                ok |-> loginOk])]

\* if (!this.conn) { await this.connect(); }
ensureConnected(c, loginOk) == IF c.conn = 0 THEN connect(c, loginOk) ELSE c

\* the guard threw: connect was called and its login was rejected
connectThrows(c, loginOk) == c.conn = 0 /\ ~loginOk

\* the request of getProgramRoles ("query"), updateProgramRole or
\* bulkUpdateProgramRoles ("update") over this.conn; Salesforce rejects a
\* request over a connection that has not logged in, and can reject any other
send(c, op, ok) ==
    [c EXCEPT !.calls = Append(@, [op |-> op, conn |-> c.conn,
                                   ok |-> ok /\ LoggedIn(c)])]

\* a method of the client from its guard to its request
request(c, op, loginOk, ok) ==
    IF connectThrows(c, loginOk) THEN ensureConnected(c, loginOk)
    ELSE send(ensureConnected(c, loginOk), op, ok)

\* the method rejected
requestThrows(c, op, loginOk, ok) ==
    ~request(c, op, loginOk, ok).calls[Len(request(c, op, loginOk, ok).calls)].ok

\* await salesforce.getProgramRoles()
GetProgramRoles ==
    /\ Len(salesforce.calls) < MaxCalls
    /\ \E loginOk, ok \in BOOLEAN : salesforce' = request(salesforce, "query", loginOk, ok)
    /\ UNCHANGED <<uscreenData, sfData, comparerVars, main, uscreen, sheets>>

(***************************************************************************)
(* GoogleSheetsClient.  client is "created" once main has made one, called *)
(* says that writeResults was called, tabs is the number of tabs that      *)
(* writeResults has written.                                               *)
(***************************************************************************)
TabCount == 6

NoSheets == [client |-> "none", called |-> FALSE, tabs |-> 0]

\* writeNeedsUpdate calls toISOString on the two dates of every entry that are
\* truthy; toISOString raises a RangeError for an Invalid Date
writeNeedsUpdateThrows(needsUpdate) ==
    \E k \in 1..Len(needsUpdate) :
        \/ needsUpdate[k].uscreenLastPaymentDate.nan
        \/ /\ needsUpdate[k].sfLastPaymentDate # None
           /\ needsUpdate[k].sfLastPaymentDate[1].nan

\* writeResults(data) of a new client when n tabs get written: authenticate
\* or the update of a tab can reject, and the Needs Update tab is the fourth
writeResults(data, n) == [client |-> "created", called |-> TRUE, tabs |-> n]

\* the numbers of tabs writeResults can end with
writable(needsUpdate) ==
    IF writeNeedsUpdateThrows(needsUpdate) THEN 0..3 ELSE 0..TabCount

(***************************************************************************)
(* main(), after Step 1 (the actions of scrapeAll above)                   *)
(***************************************************************************)
\* Step 2: new SalesforceClient(CONFIG.salesforce), getProgramRoles()
Step2 ==
    /\ main.pc = "step2"
    /\ \E loginOk, ok \in BOOLEAN :
          /\ salesforce' = request(salesforce, "query", loginOk, ok)
          /\ main' = IF requestThrows(salesforce, "query", loginOk, ok)
                     THEN onError(main) ELSE [main EXCEPT !.pc = "step3"]
    /\ UNCHANGED <<uscreenData, sfData, comparerVars, uscreen, sheets>>

\* Step 3: new DataComparer(), compare(uscreenData, sfData)
Step3 ==
    /\ main.pc = "step3"
    /\ IF compareThrows(uscreenData, sfData, sfByUscreenId, sfByEmail, absent)
       THEN Throws /\ main' = onError(main)
       ELSE /\ Returns(compare(uscreenData, sfData, sfByUscreenId, sfByEmail))
            /\ previous' = comparison
            /\ phase' = "compared"
            /\ main' = [main EXCEPT !.pc = "step4"]
    /\ UNCHANGED <<sfData, absent, uscreen, salesforce, sheets>>

\* Step 4: in a run that is not a dry run, new GoogleSheetsClient(CONFIG.sheets)
\* and writeResults
Step4 ==
    /\ main.pc = "step4"
    /\ IF step4Writes(main.isDryRun)
       THEN \E n \in writable(comparison.needsUpdate) :
               /\ sheets' = writeResults(comparison, n)
               /\ main' = IF n < TabCount THEN onError(main)
                          ELSE [main EXCEPT !.pc = "done"]
       ELSE /\ sheets' = sheets
            /\ main' = [main EXCEPT !.pc = "done"]
    /\ UNCHANGED <<uscreenData, sfData, comparerVars, uscreen, salesforce>>

\* a run of the script
NextMain ==
    \/ scrapeStep \/ LaunchBrowser \/ DownloadExports \/ ParseCSV
    \/ CloseBrowser \/ ScrapeCatch
    \/ Step2 \/ Step3 \/ Step4

(***************************************************************************)
(* Inputs.  A row is built from its cell values under one of the header    *)
(* spellings the code accepts: "title" ('User ID', 'User email', 'Status', *)
(* 'Lifetime', 'Email', 'Charge Amount', 'Charge Date', 'Payment ID') or   *)
(* "plain" (id, email, status, lifetime, user_id, amount, charge_date,     *)
(* payment_id).                                                            *)
(***************************************************************************)
Layouts == {"title", "plain"}

MkUser(layout, ref, c) ==
    IF layout = "title"
    THEN [ref |-> ref, UserID |-> c.id, user_id |-> Undef, id |-> Undef,
          email |-> Undef, UserEmail |-> c.email,
          Status |-> c.status, status |-> Undef,
          Lifetime |-> c.lifetime, lifetime |-> Undef, Segment |-> c.segment]
    ELSE [ref |-> ref, UserID |-> Undef, user_id |-> Undef, id |-> c.id,
          email |-> c.email, UserEmail |-> Undef,
          Status |-> Undef, status |-> c.status,
          Lifetime |-> Undef, lifetime |-> c.lifetime, Segment |-> c.segment]

MkPayment(layout, ref, c) ==
    IF layout = "title"
    THEN [ref |-> ref, email |-> Undef, Email |-> c.email,
          UserID |-> c.userId, user_id |-> Undef,
          ChargeAmount |-> c.amount, charge_amount |-> Undef, amount |-> Undef,
          ChargeDate |-> c.date, charge_date |-> Undef,
          Subscription |-> Undef, subscription |-> Undef,
          PaymentID |-> Str(<<"p">> \o NatToStr(ref)), payment_id |-> Undef]
    ELSE [ref |-> ref, email |-> c.email, Email |-> Undef,
          UserID |-> Undef, user_id |-> c.userId,
          ChargeAmount |-> Undef, charge_amount |-> Undef, amount |-> c.amount,
          ChargeDate |-> Undef, charge_date |-> c.date,
          Subscription |-> Undef, subscription |-> Undef,
          PaymentID |-> Undef, payment_id |-> Str(<<"p">> \o NatToStr(ref))]

MkSf(ref, c) ==
    [sfId |-> ref, contactEmail |-> c.contactEmail,
     uscreenMemberId |-> c.uscreenMemberId,
     uscreenSubscriptionStatus |-> c.uscreenSubscriptionStatus,
     uscreenLastPaymentDate |-> c.uscreenLastPaymentDate]

SeqsUpTo(S, lo, hi) == UNION {[1..n -> S] : n \in lo..hi}

\* texts of the inputs
Empty == Str(<< >>)

Id7 == Str(<<"7">>)

Id8 == Str(<<"8">>)

EmailA == Str(<<"A", "@", "x", ".", "c", "o", "m">>)

EmailAMixed == Str(<<"a", "@", "X", ".", "C", "O", "M">>)

EmailB == Str(<<"b", "@", "y", ".", "c", "o", "m">>)

Active == Str(<<"a", "c", "t", "i", "v", "e">>)

Jan1 == Str(<<"2", "0", "2", "4", "-", "0", "1", "-", "0", "1">>)

Feb1 == Str(<<"2", "0", "2", "4", "-", "0", "2", "-", "0", "1">>)

Mar1 == Str(<<"2", "0", "2", "4", "-", "0", "3", "-", "0", "1">>)

NotADate == Str(<<"n", "/", "a">>)

Amount20 == Str(<<"2", "0">>)

AmountRefund == Str(<<"-", "5">>)

AmountZero == Str(<<"0">>)

AmountWord == Str(<<"a", "b", "c">>)

Lifetime4999 == Str(<<"4", "9", ".", "9", "9">>)

CancelledMixed == Str(<<"C", "a", "n", "c", "e", "l", "l", "e", "d">>)

CancelledLower == Str(<<"c", "a", "n", "c", "e", "l", "l", "e", "d">>)

ChurnedUpper == Str(<<"C", "H", "U", "R", "N", "E", "D">>)

NotChurned == Str(<<"n", "o", "t", " ", "c", "h", "u", "r", "n", "e", "d">>)

SegmentChurned == Str(<<"R", "e", "c", "e", "n", "t", "l", "y", " ",
                        "C", "h", "u", "r", "n", "e", "d">>)

\* bounds of the model
MaxUsers == 2

MaxTargets == 2

MaxPayments == 2

\* the state after construction, for given rows and records; missing names
\* the arguments that are undefined
InitData(layout, us, ps, ts, missing) ==
    /\ uscreenData =
         [users |-> IF "users" \in missing THEN << >>
                    ELSE [i \in 1..Len(us) |-> MkUser(layout, i, us[i])],
          payments |-> IF "payments" \in missing THEN << >>
                       ELSE [i \in 1..Len(ps) |-> MkPayment(layout, i, ps[i])]]
    /\ sfData = IF "sfData" \in missing THEN << >>
                ELSE [i \in 1..Len(ts) |-> MkSf(i, ts[i])]
    /\ sfByUscreenId = EmptyMap
    /\ sfByEmail = EmptyMap
    /\ comparison = EmptyResults
    /\ previous = EmptyResults
    /\ phase = "ready"
    /\ absent = missing

\* the state of a caller that holds the arguments of compare and a new
\* DataComparer; main of index.js is not running
InitArgs(layout, us, ps, ts, missing) ==
    /\ InitData(layout, us, ps, ts, missing)
    /\ main = NotStarted
    /\ uscreen = NewScraper
    /\ salesforce = NewClient
    /\ sheets = NoSheets

\* the state after construction when the three arguments are arrays
InitWith(layout, us, ps, ts) == InitArgs(layout, us, ps, ts, {})

\* a member's cells and a target record's fields
User(id, email, status, lifetime, segment) ==
    [id |-> id, email |-> email, status |-> status, lifetime |-> lifetime,
     segment |-> segment]

Target(uscreenMemberId, contactEmail, status, lastPaymentDate) ==
    [uscreenMemberId |-> uscreenMemberId, contactEmail |-> contactEmail,
     uscreenSubscriptionStatus |-> status, uscreenLastPaymentDate |-> lastPaymentDate]

Payment(email, memberId, amount, date) ==
    [email |-> email, userId |-> memberId, amount |-> amount, date |-> date]

(***************************************************************************)
(* Spec: identity resolution.  Members and target records vary over ids    *)
(* and emails (with different letter case on the two sides); one payment   *)
(* of member 7 is newer than the targets' payment date.                    *)
(***************************************************************************)
UserDom ==
    {User(Id7, EmailA, Active, Lifetime4999, Undef),
     User(Id7, Empty, Active, AmountZero, Undef),
     User(Empty, EmailA, Active, AmountZero, Undef),
     User(Empty, Empty, Active, Lifetime4999, Undef)}

TargetDom ==
    {Target(Id7, Empty, Active, Jan1),
     Target(Id7, EmailB, Active, Jan1),
     Target(Id8, EmailAMixed, Active, Jan1),
     Target(Id8, Empty, Active, Jan1),
     Target(Null, EmailAMixed, Active, Jan1),
     Target(Null, Empty, Active, Jan1)}

FixedPayments == <<Payment(Empty, Id7, Amount20, Feb1)>>

Init ==
    \E layout \in Layouts :
    \E us \in SeqsUpTo(UserDom, 1, MaxUsers) :
    \E ts \in SeqsUpTo(TargetDom, 0, MaxTargets) :
        InitWith(layout, us, FixedPayments, ts)

Spec == Init /\ [][Next]_vars

(***************************************************************************)
(* SpecStatus: cancellation.  Members vary over status and segment, and    *)
(* over being matched (id 7) or not; the target's recorded status varies.  *)
(***************************************************************************)
StatusDom == {Active, CancelledMixed, ChurnedUpper, NotChurned}

SegmentDom == {Undef, SegmentChurned}

StatusUserDom ==
    {User(Id7, Empty, st, Lifetime4999, sg) : st \in StatusDom, sg \in SegmentDom}
      \cup {User(Empty, Empty, st, AmountZero, sg) : st \in StatusDom, sg \in SegmentDom}

InitStatus ==
    \E layout \in Layouts :
    \E us \in SeqsUpTo(StatusUserDom, 1, MaxUsers) :
    \E st \in {Active, CancelledLower} :
        InitWith(layout, us, FixedPayments, <<Target(Id7, Empty, st, Jan1)>>)

SpecStatus == InitStatus /\ [][Next]_vars

(***************************************************************************)
(* SpecPay: payment selection and freshness.  One member (id 7, email      *)
(* A@x.com) matched to one target; the payments vary over amount and       *)
(* charge date, and over whose they are.                                   *)
(***************************************************************************)
AmountDom == {Amount20, AmountRefund, AmountWord, Undef}

ChargeDateDom == {Undef, NotADate, Feb1, Mar1}

PaymentDom ==
    {Payment(EmailAMixed, Empty, a, d) : a \in AmountDom, d \in ChargeDateDom}
      \cup {Payment(Empty, Id7, Amount20, Feb1), Payment(Empty, Id8, Amount20, Mar1)}

InitPay ==
    \E layout \in Layouts :
    \E ps \in SeqsUpTo(PaymentDom, 0, MaxPayments) :
    \E d \in {Null, Feb1, Mar1} :
        InitWith(layout, <<User(Id7, EmailA, Active, Lifetime4999, Undef)>>, ps,
                 <<Target(Id7, Empty, Active, d)>>)

SpecPay == InitPay /\ [][Next]_vars

(***************************************************************************)
(* SpecSync: a run, the write-back of the reported payment dates, and a    *)
(* second run.  Two members, matched to one shared target record (member 7 *)
(* by id, member 8 by email) or to one record each.                        *)
(***************************************************************************)
SyncPaymentDom ==
    {Payment(EmailAMixed, Empty, Amount20, d) : d \in {NotADate, Feb1, Mar1}}
      \cup {Payment(Empty, Id8, Amount20, d) : d \in {NotADate, Feb1, Mar1}}

SyncTargets ==
    {<<Target(Id7, EmailB, Active, d)>> : d \in {Null, Jan1}}
      \cup {<<Target(Id7, Empty, Active, d1), Target(Id8, Empty, Active, d2)>> :
               d1 \in {Null, Jan1}, d2 \in {Null, Jan1}}

InitSync ==
    \E layout \in Layouts :
    \E ps \in SeqsUpTo(SyncPaymentDom, 0, MaxPayments) :
    \E ts \in SyncTargets :
        InitWith(layout, <<User(Id7, EmailA, Active, Lifetime4999, Undef),
                           User(Id8, EmailB, Active, Lifetime4999, Undef)>>, ps, ts)

SpecSync == InitSync /\ [][Next]_vars

(***************************************************************************)
(* SpecLifetime: unmatched members.  Member 7 is matched to the one target *)
(* record; the other members have no id and no email and vary over the     *)
(* lifetime cell: missing, zero, negative, not a number, positive.         *)
(***************************************************************************)
LifetimeZeroCents == Str(<<"0", ".", "0", "0">>)

LifetimeDollars == Str(<<"$", "5">>)

LifetimeDom ==
    {Undef, Empty, AmountZero, LifetimeZeroCents, AmountRefund, AmountWord,
     LifetimeDollars, Amount20, Lifetime4999}

LifetimeUserDom ==
    {User(Empty, Empty, Active, l, Undef) : l \in LifetimeDom}
      \cup {User(Id7, Empty, Active, Lifetime4999, Undef)}

InitLifetime ==
    \E layout \in Layouts :
    \E us \in SeqsUpTo(LifetimeUserDom, 1, MaxUsers) :
        InitWith(layout, us, FixedPayments, <<Target(Id7, Empty, Active, Jan1)>>)

SpecLifetime == InitLifetime /\ [][Next]_vars

(***************************************************************************)
(* SpecRepeated: compare called more than once.  After the first call the  *)
(* target records are read again, one of them being gone, and compare is   *)
(* called on the comparer of the first call or on a new one.               *)
(***************************************************************************)
RepeatedTargetDom ==
    {Target(Id7, Empty, Active, Jan1), Target(Id8, EmailAMixed, Active, Jan1)}

InitRepeated ==
    \E layout \in Layouts :
    \E us \in SeqsUpTo(UserDom, 1, MaxUsers) :
    \E ts \in SeqsUpTo(RepeatedTargetDom, 1, MaxTargets) :
        InitWith(layout, us, FixedPayments, ts)

SpecRepeated == InitRepeated /\ [][NextRepeated]_vars

(***************************************************************************)
(* SpecShape: malformed input.  One of the three arguments may be          *)
(* undefined; rows and records lack cells (no id, no email, no status, no  *)
(* lifetime, no amount, no date) or hold text that is not a date or not a  *)
(* number.                                                                 *)
(***************************************************************************)
ShapeUserDom ==
    {User(Id7, EmailA, Active, Lifetime4999, Undef),
     User(Undef, Undef, Undef, Undef, Undef),
     User(Undef, EmailA, Undef, AmountWord, Undef)}

ShapePaymentDom ==
    {Payment(Undef, Id7, Amount20, Feb1),
     Payment(EmailAMixed, Undef, AmountWord, NotADate),
     Payment(Undef, Undef, Undef, Undef)}

ShapeTargets ==
    {<< >>, <<Target(Id7, Empty, Null, Null)>>, <<Target(Id7, Empty, Active, NotADate)>>}

ShapeAbsent == {{}, {"users"}, {"payments"}, {"sfData"}}

InitShape ==
    \E layout \in Layouts :
    \E us \in SeqsUpTo(ShapeUserDom, 1, MaxUsers) :
    \E ps \in SeqsUpTo(ShapePaymentDom, 0, MaxPayments) :
    \E ts \in ShapeTargets :
    \E missing \in ShapeAbsent :
        InitArgs(layout, us, ps, ts, missing)

SpecShape == InitShape /\ [][Next]_vars

(***************************************************************************)
(* SpecIds: ids of either type.  The member id cell and the target's       *)
(* uscreenMemberId are the text '7' or '0' or the number 7 or 0; no record *)
(* and no member has an email.                                             *)
(***************************************************************************)
Id0 == Str(<<"0">>)

IdValueDom == {Id7, Num(7), Id0, Num(0)}

InitIds ==
    \E layout \in Layouts :
    \E us \in SeqsUpTo({User(v, Empty, Active, Lifetime4999, Undef) : v \in IdValueDom},
                       1, MaxUsers) :
    \E ts \in SeqsUpTo({Target(v, Empty, Active, Jan1) : v \in IdValueDom},
                       1, MaxTargets) :
        InitWith(layout, us, FixedPayments, ts)

SpecIds == InitIds /\ [][Next]_vars

(***************************************************************************)
(* SpecMissing: members without an id or without an email.  The id cell    *)
(* and the email cell of a member are missing, empty or present; a target  *)
(* record carries the id 7, the text 'undefined' as id, or only an email.  *)
(***************************************************************************)
IdUndefinedText == Str(<<"u", "n", "d", "e", "f", "i", "n", "e", "d">>)

MissingUserDom ==
    {User(Undef, Undef, Active, Lifetime4999, Undef),
     User(Empty, Empty, Active, Lifetime4999, Undef),
     User(Undef, EmailA, Active, Lifetime4999, Undef),
     User(Id7, Undef, Active, Lifetime4999, Undef)}

MissingTargetDom ==
    {Target(IdUndefinedText, Empty, Active, Jan1),
     Target(Id7, Empty, Active, Jan1),
     Target(Null, EmailAMixed, Active, Jan1),
     Target(Empty, Empty, Active, Jan1)}

InitMissing ==
    \E layout \in Layouts :
    \E us \in SeqsUpTo(MissingUserDom, 1, MaxUsers) :
    \E ts \in SeqsUpTo(MissingTargetDom, 0, MaxTargets) :
        InitWith(layout, us, FixedPayments, ts)

SpecMissing == InitMissing /\ [][Next]_vars

(***************************************************************************)
(* SpecAnonymous: payments that name nobody.  A payment row carries an     *)
(* email, a member id, or neither (its cells are empty or absent); the     *)
(* payments that name nobody are the only ones dated 1 March.  A member    *)
(* has an id and an email, or lacks one of them, or both.                  *)
(***************************************************************************)
AnonymousUserDom ==
    {User(Id7, EmailA, Active, Lifetime4999, Undef),
     User(Id7, Empty, Active, Lifetime4999, Undef),
     User(Empty, EmailA, Active, Lifetime4999, Undef),
     User(Undef, Undef, Active, Lifetime4999, Undef)}

AnonymousPaymentDom ==
    {Payment(Empty, Empty, Amount20, Mar1),
     Payment(Undef, Undef, Amount20, Mar1),
     Payment(Empty, Id7, Amount20, Feb1),
     Payment(EmailAMixed, Empty, Amount20, Feb1)}

InitAnonymous ==
    \E layout \in Layouts :
    \E us \in SeqsUpTo(AnonymousUserDom, 1, MaxUsers) :
    \E ps \in SeqsUpTo(AnonymousPaymentDom, 1, MaxPayments) :
        InitWith(layout, us, ps, <<Target(Id7, EmailAMixed, Active, Jan1)>>)

SpecAnonymous == InitAnonymous /\ [][Next]_vars

(***************************************************************************)
(* SpecMain: one run of the script, with or without --dry-run.  Member 7   *)
(* is matched by id, member 8 is not matched; the payment of member 7 has  *)
(* a date or a text that is no date, the record of member 7 a date or none.*)
(***************************************************************************)
MainUserDom ==
    {User(Id7, EmailA, Active, Lifetime4999, Undef),
     User(Id8, Empty, CancelledMixed, Lifetime4999, Undef)}

MainPaymentDom ==
    {Payment(Empty, Id7, Amount20, Feb1), Payment(Empty, Id7, Amount20, NotADate)}

\* the state when main() starts: process.argv has --dry-run or not, the
\* clients are not made yet
InitMain ==
    \E layout \in Layouts :
    \E us \in SeqsUpTo(MainUserDom, 1, MaxUsers) :
    \E ps \in SeqsUpTo(MainPaymentDom, 1, 1) :
    \E d \in {Null, Jan1} :
    \E dry \in BOOLEAN :
        /\ InitData(layout, us, ps, <<Target(Id7, Empty, Active, d)>>, {})
        /\ main = [pc |-> "step1", isDryRun |-> dry, exit |-> "none"]
        /\ uscreen = NewScraper
        /\ salesforce = NewClient
        /\ sheets = NoSheets

SpecMain == InitMain /\ [][NextMain]_vars

(***************************************************************************)
(* SpecClient: a caller that keeps one SalesforceClient and calls its      *)
(* methods in any order, each call succeeding or failing.                  *)
(***************************************************************************)
\* await salesforce.updateProgramRole(sfId, {Uscreen_Last_Payment_Date__c: date})
UpdateProgramRole ==
    /\ Len(salesforce.calls) < MaxCalls
    /\ \E loginOk, ok \in BOOLEAN, i \in 1..Len(sfData), date \in {Feb1, Mar1} :
          /\ salesforce' = request(salesforce, "update", loginOk, ok)
          /\ sfData' = IF requestThrows(salesforce, "update", loginOk, ok) THEN sfData
                       ELSE updateProgramRole(sfData, sfData[i].sfId, date)
    /\ UNCHANGED <<uscreenData, comparerVars, main, uscreen, sheets>>

\* await salesforce.bulkUpdateProgramRoles(updates), updates giving every
\* record the same Uscreen_Last_Payment_Date__c
RECURSIVE bulkUpdate(_, _, _)
bulkUpdate(sfs, k, date) ==
    IF k = 0 THEN sfs
    ELSE bulkUpdate(updateProgramRole(sfs, sfs[k].sfId, date), k - 1, date)

BulkUpdateProgramRoles ==
    /\ Len(salesforce.calls) < MaxCalls
    /\ \E loginOk, ok \in BOOLEAN, date \in {Feb1, Mar1} :
          /\ salesforce' = request(salesforce, "update", loginOk, ok)
          /\ sfData' = IF requestThrows(salesforce, "update", loginOk, ok) THEN sfData
                       ELSE bulkUpdate(sfData, Len(sfData), date)
    /\ UNCHANGED <<uscreenData, comparerVars, main, uscreen, sheets>>

\* the steps of a caller that keeps one SalesforceClient
NextClient == GetProgramRoles \/ UpdateProgramRole \/ BulkUpdateProgramRoles

InitClient ==
    \E layout \in Layouts :
        InitWith(layout, <<User(Id7, EmailA, Active, Lifetime4999, Undef)>>,
                 FixedPayments,
                 <<Target(Id7, Empty, Active, Jan1), Target(Id8, Empty, Active, Jan1)>>)

SpecClient == InitClient /\ [][NextClient]_vars

(***************************************************************************)
(* Properties                                                              *)
(***************************************************************************)
\* comparison is the value compare returned for the current uscreenData and sfData
Returned == phase \in {"compared", "recompared"}

Users == uscreenData.users

UserRange == 1..Len(uscreenData.users)

\* the number of entries of a result list that belong to the member user
EntriesOf(list, user) ==
    Cardinality({k \in 1..Len(list) : list[k].uscreenUser = user})

InList(list, user) == EntriesOf(list, user) > 0

\* the cell values the code reads as a member's id and email
IdCell(user) == Or(Or(user.UserID, user.user_id), user.id)

EmailCell(user) == Text(Or(user.email, user.UserEmail))

SameIgnoringCase(a, b) == toLowerCase(a) = toLowerCase(b)

IdIndexed(user) == String(IdCell(user)) \in DOMAIN sfByUscreenId

\* C1: every member has exactly one entry in matched, newUsers and noMatch taken
\* together, so the three lists are disjoint by member and their lengths add up
\* to the number of members.
C1_Partition ==
    Returned =>
        /\ \A i \in UserRange :
              EntriesOf(comparison.matched, Users[i])
                + EntriesOf(comparison.newUsers, Users[i])
                + EntriesOf(comparison.noMatch, Users[i]) = 1
        /\ Len(comparison.matched) + Len(comparison.newUsers)
             + Len(comparison.noMatch) = Len(Users)

C1_Witness ==
    /\ Returned
    /\ Len(comparison.matched) = 1
    /\ Len(comparison.newUsers) + Len(comparison.noMatch) = 1

\* C3: a member whose id, as text, is a key of the id index is matched to the
\* record the id index holds for it, whatever the email index holds for the
\* member's email.
C3_IdPrecedence ==
    Returned =>
        \A i \in UserRange :
            IdIndexed(Users[i]) =>
                \E k \in 1..Len(comparison.matched) :
                    /\ comparison.matched[k].uscreenUser = Users[i]
                    /\ comparison.matched[k].sfRecord
                         = sfByUscreenId[String(IdCell(Users[i]))]

C3_Witness ==
    /\ Returned
    /\ \E i \in UserRange :
          /\ IdIndexed(Users[i])
          /\ toLowerCase(EmailCell(Users[i])) \in DOMAIN sfByEmail
          /\ sfByEmail[toLowerCase(EmailCell(Users[i]))].sfId
               # sfByUscreenId[String(IdCell(Users[i]))].sfId
          /\ InList(comparison.matched, Users[i])

\* C4: a member whose id lookup fails and whose email is not empty is matched to
\* a target whose contactEmail equals the member's email ignoring letter case,
\* and is unmatched when no target has such a contactEmail.
HasEmail(sf, emailText) ==
    Truthy(sf.contactEmail) /\ SameIgnoringCase(sf.contactEmail.s, emailText)

C4_EmailFallback ==
    Returned =>
        \A i \in UserRange :
            (~IdIndexed(Users[i]) /\ EmailCell(Users[i]) # << >>) =>
                IF \E t \in 1..Len(sfData) : HasEmail(sfData[t], EmailCell(Users[i]))
                THEN \E k \in 1..Len(comparison.matched) :
                        /\ comparison.matched[k].uscreenUser = Users[i]
                        /\ HasEmail(comparison.matched[k].sfRecord, EmailCell(Users[i]))
                ELSE ~InList(comparison.matched, Users[i])

C4_Witness ==
    /\ Returned
    /\ \E k \in 1..Len(comparison.matched) :
          /\ ~Truthy(IdCell(comparison.matched[k].uscreenUser))
          /\ comparison.matched[k].sfRecord.contactEmail.s
               # EmailCell(comparison.matched[k].uscreenUser)
          /\ HasEmail(comparison.matched[k].sfRecord,
                      EmailCell(comparison.matched[k].uscreenUser))

\* C2: every entry of needsUpdate and of cancelled belongs to a member that has
\* an entry in matched, and to no member of newUsers or noMatch.
IsMatchedOnly(user) ==
    /\ InList(comparison.matched, user)
    /\ ~InList(comparison.newUsers, user)
    /\ ~InList(comparison.noMatch, user)

C2_Subset ==
    Returned =>
        /\ \A k \in 1..Len(comparison.needsUpdate) :
              IsMatchedOnly(comparison.needsUpdate[k].uscreenUser)
        /\ \A k \in 1..Len(comparison.cancelled) :
              IsMatchedOnly(comparison.cancelled[k].uscreenUser)

StatusCell(user) == Text(Or(user.Status, user.status))

SegmentCell(user) == Text(user.Segment)

\* the cancellation rule as the specification words it
ReportsCancelled(user) ==
    \/ SameIgnoringCase(StatusCell(user), CancelledLower.s)
    \/ SameIgnoringCase(StatusCell(user), ChurnedUpper.s)
    \/ \E k \in 0..Len(SegmentCell(user)) :
          k + 7 <= Len(SegmentCell(user))
            /\ SameIgnoringCase(SubSeq(SegmentCell(user), k + 1, k + 7), ChurnedUpper.s)

\* a cancelled member without a match beside a matched member in both lists
C2_Witness ==
    /\ Returned
    /\ Len(comparison.needsUpdate) = 1
    /\ Len(comparison.cancelled) = 1
    /\ \E k \in 1..Len(comparison.noMatch) :
          ReportsCancelled(comparison.noMatch[k].uscreenUser)

Payments == uscreenData.payments

\* what findLatestPayment returns for the member user
LatestFor(user) == findLatestPayment(Payments, userEmail(user), userId(user))

AmountCell(p) == Or(Or(p.ChargeAmount, p.charge_amount), p.amount)

ChargeDateCell(p) == Or(p.ChargeDate, p.charge_date)

PaymentIdCell(p) == Or(p.PaymentID, p.payment_id)

\* a date cell that holds a date; a missing or unparseable one stands for the
\* earliest possible instant
Dated(v) == Truthy(v) /\ ~NewDate(v).nan

\* a strictly later than b, both read with missing / unparseable = earliest
StrictlyLater(a, b) ==
    Dated(a) /\ (~Dated(b) \/ NewDate(a).t > NewDate(b).t)

\* C5: a matched member is in needsUpdate exactly when a payment is returned
\* for it whose charge date is strictly later than the target's lastPaymentDate,
\* a missing or unparseable date being the earliest possible instant.
C5_NeedsUpdateIff ==
    Returned =>
        \A k \in 1..Len(comparison.matched) :
            InList(comparison.needsUpdate, comparison.matched[k].uscreenUser)
              <=> /\ LatestFor(comparison.matched[k].uscreenUser) # None
                  /\ StrictlyLater(
                         LatestFor(comparison.matched[k].uscreenUser)[1].chargeDate,
                         comparison.matched[k].sfRecord.uscreenLastPaymentDate)

\* C7: the payment returned for a member, and so every latestPayment of
\* needsUpdate, has an amount strictly greater than 0.
C7_PositiveAmount ==
    Returned =>
        /\ \A i \in UserRange :
              LatestFor(Users[i]) # None => GtZero(LatestFor(Users[i])[1].amount)
        /\ \A k \in 1..Len(comparison.needsUpdate) :
              GtZero(comparison.needsUpdate[k].latestPayment.amount)

\* C8: a payment whose amount is missing or is not a number is returned for no
\* member and is the latestPayment of no needsUpdate entry.
UnusableAmount(p) == ~Truthy(AmountCell(p)) \/ parseFloat(AmountCell(p)).nan

C8_UnparseableAmountExcluded ==
    Returned =>
        \A j \in 1..Len(Payments) :
            UnusableAmount(Payments[j]) =>
                /\ \A i \in UserRange :
                      LatestFor(Users[i]) # None =>
                          LatestFor(Users[i])[1].paymentId # PaymentIdCell(Payments[j])
                /\ \A k \in 1..Len(comparison.needsUpdate) :
                      comparison.needsUpdate[k].latestPayment.paymentId
                        # PaymentIdCell(Payments[j])

\* C9: the payment returned for a member carries the maximum charge date of the
\* member's candidates: when a candidate is dated, the returned payment is dated
\* and not earlier.
C9_LatestIsMaximum ==
    Returned =>
        \A i \in UserRange :
            \A j \in 1..Len(Payments) :
                (/\ paymentFilter(Payments[j], userEmail(Users[i]), userId(Users[i]))
                 /\ Dated(ChargeDateCell(Payments[j])))
                  => /\ Dated(LatestFor(Users[i])[1].chargeDate)
                     /\ NewDate(LatestFor(Users[i])[1].chargeDate).t
                          >= NewDate(ChargeDateCell(Payments[j])).t

ReportedFor(sfId) ==
    Cardinality({j \in 1..Len(previous.needsUpdate) :
                    previous.needsUpdate[j].sfRecord.sfId = sfId})

CancelledMembers(results) ==
    {results.cancelled[k].uscreenUser : k \in 1..Len(results.cancelled)}

\* the target records with the recorded status of each replaced by st
WithStatus(sfs, st) ==
    [i \in 1..Len(sfs) |-> [sfs[i] EXCEPT !.uscreenSubscriptionStatus = st]]

LifetimeCell(user) == Or(user.Lifetime, user.lifetime)

PaidTexts == {Amount20, Lifetime4999}

\* C12: an unmatched member is in newUsers exactly when its lifetime value is
\* above zero and in noMatch otherwise, a missing, zero, negative or
\* non-numeric lifetime value counting as not above zero.
C12_NewUsersIffPaid ==
    Returned =>
        \A i \in UserRange :
            ~InList(comparison.matched, Users[i]) =>
                /\ InList(comparison.newUsers, Users[i])
                     <=> LifetimeCell(Users[i]) \in PaidTexts
                /\ InList(comparison.noMatch, Users[i])
                     <=> LifetimeCell(Users[i]) \notin PaidTexts

\* an unmatched member with a non-numeric lifetime value is in noMatch beside
\* an unmatched member with a positive one in newUsers
C12_Witness ==
    /\ Returned
    /\ \E i \in UserRange :
          /\ LifetimeCell(Users[i]) \in {AmountWord, LifetimeDollars, AmountRefund}
          /\ InList(comparison.noMatch, Users[i])
    /\ \E i \in UserRange :
          /\ LifetimeCell(Users[i]) = Lifetime4999
          /\ ~InList(comparison.matched, Users[i])
          /\ InList(comparison.newUsers, Users[i])

\* the entries of a result list belong to members at increasing positions of
\* the input (ref is a row's position in its input list)
InInputOrder(list) ==
    \A j \in 1..Len(list) : \A k \in 1..Len(list) :
        j < k => list[j].uscreenUser.ref < list[k].uscreenUser.ref

\* C13: in each of the five lists the entries follow the input order of the
\* members and no member has two entries.
C13_InputOrder ==
    Returned =>
        /\ InInputOrder(comparison.matched)
        /\ InInputOrder(comparison.needsUpdate)
        /\ InInputOrder(comparison.newUsers)
        /\ InInputOrder(comparison.cancelled)
        /\ InInputOrder(comparison.noMatch)
        /\ \A i \in UserRange :
              /\ EntriesOf(comparison.matched, Users[i]) <= 1
              /\ EntriesOf(comparison.needsUpdate, Users[i]) <= 1
              /\ EntriesOf(comparison.newUsers, Users[i]) <= 1
              /\ EntriesOf(comparison.cancelled, Users[i]) <= 1
              /\ EntriesOf(comparison.noMatch, Users[i]) <= 1

\* two members with entries in the same lists
C13_Witness ==
    /\ Returned
    /\ Len(comparison.matched) = 2
    /\ Len(comparison.needsUpdate) = 2
    /\ comparison.matched[1].uscreenUser # comparison.matched[2].uscreenUser

\* C14: the value compare returns is the value a new comparer returns for the
\* same arguments, whatever the comparer was called with before.
C14_SameAsNewComparer ==
    phase \in {"compared", "recompared", "again"} =>
        comparison = compare(uscreenData, sfData, EmptyMap, EmptyMap).results

\* C15: a call of compare that follows a call with the same members, payments
\* and target records returns the same lists (in phase "again" the arguments
\* are those of the call before).
C15_SameArgumentsSameResult ==
    [][(phase = "again" /\ phase' = "again") => comparison' = comparison]_vars

\* C16: a call of compare leaves the members, the payments and the target
\* records as they were, in the same order.
C16_InputsUnchanged ==
    [][Compare => (uscreenData' = uscreenData /\ sfData' = sfData)]_vars

\* compare has returned the later of two payments that stands second in the
\* payments list
C16_Witness ==
    /\ Returned
    /\ Len(uscreenData.payments) = 2
    /\ Or(uscreenData.payments[1].ChargeDate, uscreenData.payments[1].charge_date) = Feb1
    /\ Len(comparison.needsUpdate) = 1
    /\ comparison.needsUpdate[1].latestPayment.chargeDate = Mar1
    /\ comparison.needsUpdate[1].latestPayment.paymentId
         = Or(uscreenData.payments[2].PaymentID, uscreenData.payments[2].payment_id)

\* C17: when one of the three arguments is missing, compare raises and
\* returns nothing.
C17_MalformedNeverReturns ==
    absent # {} => phase \notin {"compared", "recompared", "again"}

\* the rows and records of the current arguments that lack cells or hold
\* text that is not a date or a number
BlankUser(user) ==
    /\ IdCell(user) = Undef
    /\ Or(user.email, user.UserEmail) = Undef
    /\ Or(user.Status, user.status) = Undef
    /\ Or(user.Lifetime, user.lifetime) = Undef

\* C18: when the three arguments are arrays, compare returns and does not
\* raise, whatever cells the rows and records lack and whatever text stands
\* for a date or an amount.
C18_DefectsNotFatal ==
    absent = {} => phase # "failed"

\* compare has returned for a member without any cell, a matched member, a
\* payment whose amount and date are not a number and not a date, and a target
\* record without status and payment date
C18_Witness ==
    /\ phase = "compared"
    /\ absent = {}
    /\ \E i \in UserRange : BlankUser(Users[i])
    /\ Len(comparison.matched) = 1
    /\ \E k \in 1..Len(uscreenData.payments) :
          /\ Or(uscreenData.payments[k].ChargeDate, uscreenData.payments[k].charge_date)
               = NotADate
          /\ Or(Or(uscreenData.payments[k].ChargeAmount,
                   uscreenData.payments[k].charge_amount),
                uscreenData.payments[k].amount) = AmountWord
    /\ Len(sfData) = 1
    /\ sfData[1].uscreenLastPaymentDate = Null

\* the positions of the target records that carry the id text key, and of those
\* whose contact email is key when lowercased
IdHolders(key) ==
    {i \in 1..Len(sfData) :
        Truthy(sfData[i].uscreenMemberId) /\ String(sfData[i].uscreenMemberId) = key}

EmailHolders(key) ==
    {i \in 1..Len(sfData) :
        Truthy(sfData[i].contactEmail) /\ toLowerCase(sfData[i].contactEmail.s) = key}

Last(S) == CHOOSE i \in S : \A j \in S : j <= i

\* C19: when several target records carry the same id text or the same
\* lowercased email, the index holds the one that comes last in the list, and
\* a member matching on that key is matched to it.
C19_LastRecordWins ==
    Returned =>
        /\ \A key \in DOMAIN sfByUscreenId :
              IdHolders(key) # {} => sfByUscreenId[key] = sfData[Last(IdHolders(key))]
        /\ \A key \in DOMAIN sfByEmail :
              EmailHolders(key) # {} => sfByEmail[key] = sfData[Last(EmailHolders(key))]
        /\ \A k \in 1..Len(comparison.matched) :
              IF IdHolders(String(comparison.matched[k].uscreenId)) # {}
              THEN comparison.matched[k].sfRecord
                     = sfData[Last(IdHolders(String(comparison.matched[k].uscreenId)))]
              ELSE comparison.matched[k].sfRecord
                     = sfData[Last(EmailHolders(comparison.matched[k].email))]

\* two target records with different emails carry the id of a member, which is
\* matched to the second
C19_Witness ==
    /\ Returned
    /\ Len(sfData) = 2
    /\ IdHolders(<<"7">>) = {1, 2}
    /\ sfData[1].contactEmail # sfData[2].contactEmail
    /\ \E k \in 1..Len(comparison.matched) :
          /\ String(comparison.matched[k].uscreenId) = <<"7">>
          /\ comparison.matched[k].sfRecord = sfData[2]

\* a value that has a non-empty text: a non-empty string or a number
HasText(v) == v.t \in {"str", "num"} /\ String(v) # << >>

\* the id cell a member row carries, under either header spelling
GivenId(user) ==
    IF user.UserID # Undef THEN user.UserID
    ELSE IF user.user_id # Undef THEN user.user_id ELSE user.id

\* C20: every target record whose id has a non-empty text is in the id index
\* under that text, a number like the string of the same text (0 included),
\* and a member whose id has the text of a target's id is matched.
C20_IdsComparedAsText ==
    Returned =>
        /\ \A j \in 1..Len(sfData) :
              HasText(sfData[j].uscreenMemberId) =>
                  String(sfData[j].uscreenMemberId) \in DOMAIN sfByUscreenId
        /\ \A i \in UserRange : \A j \in 1..Len(sfData) :
              ( /\ HasText(GivenId(Users[i]))
                /\ HasText(sfData[j].uscreenMemberId)
                /\ String(GivenId(Users[i])) = String(sfData[j].uscreenMemberId) )
                  => InList(comparison.matched, Users[i])

\* the entry of matched at position k pairs its member with a record that
\* carries the member's id text, or the member's email
PairedById(k) ==
    /\ Truthy(GivenId(comparison.matched[k].uscreenUser))
    /\ HasText(comparison.matched[k].sfRecord.uscreenMemberId)
    /\ String(comparison.matched[k].sfRecord.uscreenMemberId)
         = String(GivenId(comparison.matched[k].uscreenUser))

PairedByEmail(k) ==
    /\ EmailCell(comparison.matched[k].uscreenUser) # << >>
    /\ Truthy(comparison.matched[k].sfRecord.contactEmail)
    /\ SameIgnoringCase(comparison.matched[k].sfRecord.contactEmail.s,
                        EmailCell(comparison.matched[k].uscreenUser))

\* C21: a member without an id is matched through its email only, a member
\* without an email through its id only, and a member with neither is not
\* matched, whatever the target records carry.
C21_MissingKeyNeverMatches ==
    Returned =>
        \A k \in 1..Len(comparison.matched) : PairedById(k) \/ PairedByEmail(k)

\* the target record of the current arguments that has the Salesforce Id sfId
RecordWithId(sfId) ==
    sfData[CHOOSE i \in 1..Len(sfData) : sfData[i].sfId = sfId]

\* C22: every entry of cancelled carries the recorded status of the member's
\* target record as previousStatus and "cancelled" as newStatus, and matched
\* has an entry for the same member and record.
C22_CancelledEntryFields ==
    Returned =>
        \A k \in 1..Len(comparison.cancelled) :
            /\ \E i \in 1..Len(sfData) :
                  sfData[i].sfId = comparison.cancelled[k].sfRecord.sfId
            /\ comparison.cancelled[k].previousStatus
                 = RecordWithId(comparison.cancelled[k].sfRecord.sfId).uscreenSubscriptionStatus
            /\ comparison.cancelled[k].newStatus = "cancelled"
            /\ \E j \in 1..Len(comparison.matched) :
                  /\ comparison.matched[j].uscreenUser = comparison.cancelled[k].uscreenUser
                  /\ comparison.matched[j].sfRecord = comparison.cancelled[k].sfRecord

\* a cancelled member is reported for a record whose status is still active
C22_Witness ==
    /\ phase = "compared"
    /\ Len(comparison.cancelled) >= 1
    /\ comparison.cancelled[1].previousStatus = Active
    /\ StatusCell(comparison.cancelled[1].uscreenUser) = CancelledMixed.s

\* C23: a member is listed in cancelled only when its target record does not
\* hold the status cancelled already, so that the list shows the members whose
\* status changed.
C23_OnlyNewlyCancelled ==
    Returned =>
        \A k \in 1..Len(comparison.cancelled) :
            /\ ReportsCancelled(comparison.cancelled[k].uscreenUser)
            /\ toLowerCase(Text(comparison.cancelled[k].sfRecord.uscreenSubscriptionStatus))
                 # CancelledText


\* C25: for a matched member the cancellation check and the payment check are
\* decided each on its own: the member is in cancelled exactly when it reports
\* a cancellation, and in needsUpdate exactly when its latest payment is newer
\* than the date of its record, whatever the other check said.
C25_DecidedIndependently ==
    Returned =>
        \A k \in 1..Len(comparison.matched) :
            /\ InList(comparison.cancelled, comparison.matched[k].uscreenUser)
                 <=> ReportsCancelled(comparison.matched[k].uscreenUser)
            /\ InList(comparison.needsUpdate, comparison.matched[k].uscreenUser)
                 <=> paymentIsNewer(LatestFor(comparison.matched[k].uscreenUser),
                                    comparison.matched[k].sfRecord)

\* the four combinations: in the first comparison one member is in both lists
\* and another in needsUpdate only; after the updates were applied the first
\* is in cancelled only and the second in neither list
C25_Witness ==
    /\ phase = "recompared"
    /\ \E u, v \in {Users[i] : i \in UserRange} :
          /\ InList(previous.cancelled, u) /\ InList(previous.needsUpdate, u)
          /\ ~InList(previous.cancelled, v) /\ InList(previous.needsUpdate, v)
          /\ InList(comparison.cancelled, u) /\ ~InList(comparison.needsUpdate, u)
          /\ InList(comparison.matched, v)
          /\ ~InList(comparison.cancelled, v) /\ ~InList(comparison.needsUpdate, v)


\* the payment row p carries neither an email nor a member id
NamesNobody(p) ==
    /\ Text(Or(p.email, p.Email)) = << >>
    /\ ~Truthy(Or(p.UserID, p.user_id))

\* C29: a payment that carries neither an email nor a member id is attributed
\* to no member: whatever findLatestPayment returns for a member is taken from
\* a payment that names somebody.
C29_AnonymousPaymentUnattributed ==
    Returned =>
        \A i \in UserRange :
            \/ LatestFor(Users[i]) = None
            \/ \E j \in 1..Len(Payments) :
                  /\ ~NamesNobody(Payments[j])
                  /\ latestPaymentOf(Payments[j]) = LatestFor(Users[i])[1]


\* the record of the entry of matched at position k carries the id of the
\* entry's member, both read as text
SameIdText(k) ==
    /\ Truthy(comparison.matched[k].sfRecord.uscreenMemberId)
    /\ String(comparison.matched[k].sfRecord.uscreenMemberId)
         = String(IdCell(comparison.matched[k].uscreenUser))

\* C30: every entry of matched is sound: its record is one of the target
\* records of the call, the record carries the member's id as text or the
\* member's email ignoring letter case, and the member has one entry only.
C30_MatchedSound ==
    phase \in {"compared", "recompared", "again"} =>
        \A k \in 1..Len(comparison.matched) :
            /\ \E i \in 1..Len(sfData) : sfData[i] = comparison.matched[k].sfRecord
            /\ SameIdText(k) \/ PairedByEmail(k)
            /\ EntriesOf(comparison.matched, comparison.matched[k].uscreenUser) = 1


(***************************************************************************)
(* The script and its clients.                                             *)
(***************************************************************************)
\* scrapeAll has finished
ScrapeFinished == uscreen.at \in {"returned", "threw"}

\* C27: when scrapeAll has finished, by returning the rows or by throwing, no
\* browser is left: this.browser and this.page are null.
C27_NoBrowserLeftOpen ==
    ScrapeFinished => uscreen.browser = "null" /\ uscreen.page = "null"


\* scrapeAll returned the rows to main
ScrapeReturned == uscreen.at = "returned"

\* Salesforce answered a query of the client
Pulled ==
    \E i \in 1..Len(salesforce.calls) :
        salesforce.calls[i].op = "query" /\ salesforce.calls[i].ok

\* C24: in a dry run no GoogleSheetsClient is made and writeResults is never
\* called, and a dry run that reaches its end has scraped, pulled and compared.
C24_DryRunNeverWrites ==
    main.isDryRun =>
        /\ sheets.client = "none" /\ ~sheets.called /\ sheets.tabs = 0
        /\ main.pc = "done" => ScrapeReturned /\ Pulled /\ phase = "compared"

\* a dry run that went through its steps and matched a member
C24_Witness ==
    /\ main.isDryRun
    /\ main.pc = "done"
    /\ ScrapeReturned /\ Pulled
    /\ Len(comparison.matched) >= 1

\* a step of main has failed
StepFailed ==
    \/ uscreen.at = "threw"
    \/ salesforce.calls # << >> /\ ~salesforce.calls[Len(salesforce.calls)].ok
    \/ phase = "failed"
    \/ sheets.called /\ sheets.tabs < TabCount

\* C26: the steps run in the order scrape, pull, compare, write: a step has
\* started only if the steps before it returned, the write in particular only
\* after the scrape, the pull and the comparison, and once a step has failed
\* the process has exited with status 1.
C26_StepsInOrder ==
    /\ salesforce # NewClient => ScrapeReturned
    /\ phase # "ready" => ScrapeReturned /\ Pulled
    /\ sheets # NoSheets => ScrapeReturned /\ Pulled /\ phase = "compared"
    /\ StepFailed => main.pc = "exited" /\ main.exit = "1"
    /\ main.pc = "done" => ~StepFailed

\* a run that wrote all its tabs, after a comparison that found an update
C26_Witness ==
    /\ main.pc = "done"
    /\ sheets.called /\ sheets.tabs = TabCount
    /\ ScrapeReturned /\ Pulled
    /\ Len(comparison.needsUpdate) >= 1


\* the request at position i of the client's calls went over a connection
\* that had logged in before
AfterLogin(i) ==
    \E j \in 1..(i - 1) :
        salesforce.calls[j] = [op |-> "login", conn |-> salesforce.calls[i].conn,
                               ok |-> TRUE]

\* after a login that succeeded the client does not log in again
OneLogin ==
    \A j \in 1..Len(salesforce.calls) :
        salesforce.calls[j].op = "login" /\ salesforce.calls[j].ok
            => \A i \in (j + 1)..Len(salesforce.calls) : salesforce.calls[i].op # "login"

\* C28: every query and every update the client sends goes over a connection
\* that has logged in with success before, and after a successful login the
\* client does not log in again.
C28_LoginBeforeRequest ==
    /\ \A i \in 1..Len(salesforce.calls) :
          salesforce.calls[i].op \in {"query", "update"} => AfterLogin(i)
    /\ OneLogin

====
